---- MODULE Spec2Model ----
(***************************************************************************)
(* Model of the PPM servo driver (module/servo.c): the per-channel hrtimer *)
(* callback servo_cb, the character-device operations servo_open,          *)
(* servo_release, servo_read, servo_write and servo_ioctl, the channel     *)
(* records they share, and servo_probe and servo_remove; and of the        *)
(* busy-loop variant of the timing engine (src/servo_user_test.c).         *)
(*                                                                         *)
(* 32-bit words (uint32_t / unsigned int) are written as the signed        *)
(* two's-complement integer with the same bit pattern, so the words        *)
(* 0 .. 2^31-1 are themselves and -1 is the word 0xFFFFFFFF.  Comparisons  *)
(* of words use U32Lt, the unsigned order the C code compares with.        *)
(***************************************************************************)
EXTENDS Integers, Sequences, FiniteSets, TLC

\* ---------------------------------------------------------------- settings
MIN_PERIOD == 1000000
MAX_PERIOD == 2000000
SERVO_PERIOD == 20000000

\* flag bit numbers
SERVO_ENABLED == 0
SERVO_INVERTED == 1
SERVO_ACTIVE == 2
SERVO_OPEN == 3

\* number of channels found in the device tree (n-servos)
n_servos == 2

\* the busy-loop variant (src/servo_user_test.c): its width limits, its frame
\* and the nanoseconds of a second
SERVO_MIN == 1000000
SERVO_MAX == 2000000
FRAME_NS == 20000000
NSEC_PER_SEC == 1000000000

\* ------------------------------------------------------------------ bounds
\* time (ns, CLOCK_MONOTONIC since probe) after which the model stops the clock
MaxTime == 22000000
\* file operations (system calls on the device files) a behaviour may enter
MaxCalls == 4
\* how late after its deadline a callback may be delivered
Latency == 300000
\* time after which the model of the free-running timer stops the clock
FreeTime == 62000000

Chan == 0 .. (n_servos - 1)

\* concurrent user-space callers of the device files
Callers == {"p", "q"}

\* values user space passes to SERVO_WV (as 32-bit words)
WidthInputs == {999999, MIN_PERIOD, 1500000, MAX_PERIOD, 2000001, -1}

\* values user space passes to SERVO_WF
FlagInputs == 0 .. 3

\* bytes user space passes to write(2)
TextInputs ==
    { <<"3","0","0","0","0","0","0","\n">>,
      <<"1","5","0","0","0","0","0","\n">>,
      <<"1","5","0","0","0","0","0">>,
      <<"9","9","9","9","9","9","\n">>,
      <<"-","5","\n">>,
      <<"a","b","c","\n">> }

\* a text of white space only
BlankText == <<"\n">>

\* buffer lengths user space passes to read(2)
ReadLens == {4, 16}

\* values typed at the prompt of the busy-loop variant, in thousandths
\* (-1.0, 0.0, 0.5, 1.0, 20.0)
ValInputs == {-1000, 0, 500, 1000, 20000}

\* CLOCK_MONOTONIC, in ns, when the busy-loop variant is started
ThreadStarts == {0, 970000000}

\* what the uninitialised byte kbuf[klen] may hold
StackBytes == {"0", "x"}

\* ----------------------------------------------------------------- bit ops
RECURSIVE Pow2(_)
Pow2(n) == IF n = 0 THEN 1 ELSE 2 * Pow2(n - 1)

test_bit(nr, w) == (w \div Pow2(nr)) % 2 = 1
set_bit(nr, w) == IF test_bit(nr, w) THEN w ELSE w + Pow2(nr)
clear_bit(nr, w) == IF test_bit(nr, w) THEN w - Pow2(nr) ELSE w
change_bit(nr, w) == IF test_bit(nr, w) THEN w - Pow2(nr) ELSE w + Pow2(nr)

\* unsigned comparison of two 32-bit words
U32Lt(a, b) ==
    \/ a >= 0 /\ b >= 0 /\ a < b
    \/ a >= 0 /\ b < 0
    \/ a < 0 /\ b < 0 /\ a < b

BoolToInt(b) == IF b THEN 1 ELSE 0

\* ------------------------------------------------------------------- state
VARIABLES
    period_ns,   \* servos[i].period_ns
    flags,       \* servos[i].flags
    t_switch,    \* servos[i].t_switch
    t_next,      \* servos[i].t_next
    expires,     \* servos[i].timer: its expiry time
    gpio,        \* the value last driven on servos[i].gpio
    now,         \* CLOCK_MONOTONIC
    proc,        \* per caller: where it is in a file operation, and its result
    obs,         \* per channel: what the callback was last seen to do
    calls,       \* file operations entered so far
    life,        \* where servo_probe / servo_remove stand, and what they did
    thr          \* the busy-loop variant (src/servo_user_test.c): its thread

vars == <<period_ns, flags, t_switch, t_next, expires, gpio, now, proc, obs, calls, life, thr>>

\* kmalloc does not clear t_switch and t_next
Uninit == {0, 123456789}

\* pc: where the caller is; ch: the channel of its file (private_data);
\* arg: the word copied in by a SERVO_WF still under way, old: the flags word
\* that call found; ret: what its last call returned; val: the word its last
\* call copied out to user space; off: the position of its file (*off);
\* txt: the bytes its last read(2) copied out
IdleProc ==
    [pc |-> "closed", ch |-> 0, arg |-> 0, old |-> 0, ret |-> 0, val |-> 0,
     off |-> 0, txt |-> <<>>]

\* last: what the last firing did ("start" a pulse, "end" one, "skip" a frame);
\* at: the expiry it ran for; start_at: the expiry of the last "start" firing;
\* prev: start_at of the frame before, when that frame saw no control operation;
\* w_read: the stored width when the last pulse began; hi, lo: the durations
\* the timer was re-armed with at the last "start" and at the "end" after it;
\* clean: no control operation since a "start" firing that found the channel
\* not inverted; wv: the last width write; inv: the SERVO_INV calls so far
NoObs ==
    [last |-> "none", at |-> -1, start_at |-> -1, prev |-> -1, w_read |-> -1,
     hi |-> -1, lo |-> -1, clean |-> FALSE, wr |-> FALSE, wv |-> <<>>, inv |-> 0]

\* pc: where servo_probe or servo_remove stands ("bound": probed, not being
\* removed); i: the loop index there; step: the next call of the loop body;
\* held: the channels whose line gpiod_get_index returned; armed: the channels
\* whose timer is started and not cancelled; log: the calls made so far on
\* timers and lines while unwinding or removing, as <<call, channel>>; k: the
\* channels set up when servo_probe took a failure path (-1: it took none)
LifeBound ==
    [pc |-> "bound", i |-> 0, step |-> 0, held |-> Chan, armed |-> Chan, log |-> <<>>, k |-> -1]

\* a struct timespec
Ts(s, ns) == [tv_sec |-> s, tv_nsec |-> ns]

\* pc: where servo_channel stands ("off": the thread does not exist);
\* pulse_ns: the shared width; dat: the bit SERVO_BIT of the data register;
\* t_next, t_switch: its two deadlines; epoch: CLOCK_MONOTONIC at the time 0
\* of the model; t0: the time stamp the loop started from; k: the frames
\* begun; w: the width read for the last frame begun
ThrOff ==
    [pc |-> "off", pulse_ns |-> 0, dat |-> 0, t_next |-> Ts(0, 0), t_switch |-> Ts(0, 0),
     epoch |-> 0, t0 |-> Ts(0, 0), k |-> 0, w |-> 0]

\* state at the end of a successful servo_probe
Init ==
    /\ period_ns = [i \in Chan |-> MIN_PERIOD]
    /\ flags = [i \in Chan |-> 0]
    /\ \E u \in Uninit : t_switch = [i \in Chan |-> u] /\ t_next = [i \in Chan |-> u]
    /\ expires = [i \in Chan |-> MIN_PERIOD]
    /\ gpio = [i \in Chan |-> 1]
    /\ now = 0
    /\ proc = [c \in Callers |-> IdleProc]
    /\ obs = [i \in Chan |-> NoObs]
    /\ calls = 0
    /\ life = LifeBound
    /\ thr = ThrOff

\* servo_probe enters its loop over the channels (line 174): the servos array
\* is allocated and not written, no line is held and no timer exists
InitLoad ==
    /\ \E u \in Uninit :
          /\ period_ns = [i \in Chan |-> u] /\ flags = [i \in Chan |-> u]
          /\ t_switch = [i \in Chan |-> u] /\ t_next = [i \in Chan |-> u]
    /\ expires = [i \in Chan |-> -1]
    /\ gpio = [i \in Chan |-> -1]
    /\ now = 0
    /\ proc = [c \in Callers |-> IdleProc]
    /\ obs = [i \in Chan |-> NoObs]
    /\ calls = 0
    /\ life = [LifeBound EXCEPT !.pc = "gpio", !.held = {}, !.armed = {}]
    /\ thr = ThrOff

\* ---------------------------------------------------------- timer callback
\* level driven when a pulse ends (gpiod_set_value in the ACTIVE branch)
cb_idle_level(f) == BoolToInt(test_bit(SERVO_INVERTED, f))

\* a slip of polarity: the pulse begins at the idle level
cb_active_level_slip(f) == BoolToInt(test_bit(SERVO_INVERTED, f))

\* level driven when a pulse begins
cb_active_level(f) == BoolToInt(~test_bit(SERVO_INVERTED, f))

\* the width read once when a pulse begins
cb_t_switch(i) == period_ns[i]

\* a slip: the low phase lasts a whole frame
cb_t_next_slip(ts) == SERVO_PERIOD

\* the low-phase duration, fixed when the pulse begins
cb_t_next(ts) == SERVO_PERIOD - ts

\* a slip: the low phase is computed again from the width stored now
cb_low_duration_slip(i) == SERVO_PERIOD - period_ns[i]

\* the duration the callback re-arms with when a pulse ends
cb_low_duration(i) == t_next[i]

\* a slip: the timer is re-armed from the time the callback runs at
hrtimer_add_expires_ns_slip(e, ns) == now + ns

\* hrtimer_add_expires_ns: the new expiry is the old expiry plus ns
hrtimer_add_expires_ns(e, ns) == e + ns

\* a slip: the phase bit is left set when a pulse ends
cb_end_flags_slip(f) == f

\* the flags word when a pulse ends (clear_bit in the ACTIVE branch)
cb_end_flags(f) == clear_bit(SERVO_ACTIVE, f)

\* the callback finds the channel enabled and in its pulse: end the pulse
cb_end_pulse(i) ==
    /\ gpio' = [gpio EXCEPT ![i] = cb_idle_level(flags[i])]
    /\ flags' = [flags EXCEPT ![i] = cb_end_flags(flags[i])]
    /\ expires' = [expires EXCEPT ![i] = hrtimer_add_expires_ns(expires[i], cb_low_duration(i))]
    /\ obs' = [obs EXCEPT ![i] = [@ EXCEPT !.last = "end", !.at = expires[i],
                                            !.lo = expires'[i] - expires[i]]]
    /\ UNCHANGED <<t_switch, t_next>>

\* the callback finds the channel enabled and idle: begin a pulse
cb_begin_pulse(i) ==
    /\ gpio' = [gpio EXCEPT ![i] = cb_active_level(flags[i])]
    /\ flags' = [flags EXCEPT ![i] = set_bit(SERVO_ACTIVE, flags[i])]
    /\ t_switch' = [t_switch EXCEPT ![i] = cb_t_switch(i)]
    /\ t_next' = [t_next EXCEPT ![i] = cb_t_next(t_switch'[i])]
    /\ expires' = [expires EXCEPT ![i] = hrtimer_add_expires_ns(expires[i], t_switch'[i])]
    /\ obs' = [obs EXCEPT ![i] =
                 [last |-> "start", at |-> expires[i], start_at |-> expires[i],
                  prev |-> IF @.clean /\ @.last = "end" THEN @.start_at ELSE -1,
                  w_read |-> period_ns[i], hi |-> expires'[i] - expires[i], lo |-> -1,
                  clean |-> ~test_bit(SERVO_INVERTED, flags[i]), wr |-> FALSE,
                  wv |-> @.wv, inv |-> @.inv]]

\* a slip: a disabled channel is re-armed with the low-phase duration
cb_skip_duration_slip(i) == t_next[i]

\* the duration the callback re-arms a disabled channel with
cb_skip_duration(i) == SERVO_PERIOD

\* the callback finds the channel disabled: one idle frame
cb_disabled(i) ==
    /\ expires' = [expires EXCEPT ![i] = hrtimer_add_expires_ns(expires[i], cb_skip_duration(i))]
    /\ obs' = [obs EXCEPT ![i] = [@ EXCEPT !.last = "skip", !.at = expires[i]]]
    /\ UNCHANGED <<gpio, flags, t_switch, t_next>>

\* servo_cb runs once the timer of channel i has expired, and always restarts
\* it (HRTIMER_RESTART).  It is one step: every access it makes to the flags
\* word is a single atomic bit operation, and a bit operation of a file
\* operation that falls between two of them leaves the state that the same
\* operation leaves right before or right after the whole callback.
servo_cb(i) ==
    /\ i \in life.armed
    /\ now >= expires[i]
    /\ IF test_bit(SERVO_ENABLED, flags[i])
       THEN IF test_bit(SERVO_ACTIVE, flags[i]) THEN cb_end_pulse(i) ELSE cb_begin_pulse(i)
       ELSE cb_disabled(i)
    /\ UNCHANGED <<period_ns, now, proc, calls, life, thr>>

\* ------------------------------------------------------------------- clock
\* time passes up to the next expiry of a timer among the channels S, as
\* long as that is not after T
ElapseToDeadlineBy(S, T) ==
    /\ \E i \in S : expires[i] > now /\ expires[i] <= T /\ now' = expires[i]
    /\ UNCHANGED <<period_ns, flags, t_switch, t_next, expires, gpio, proc, obs, calls, life, thr>>

\* time passes while an expired timer among the channels S waits for its
\* callback, as long as that does not lead after T
ElapseLateBy(S, T) ==
    /\ \E i \in S : expires[i] = now
    /\ now + Latency <= T
    /\ now' = now + Latency
    /\ UNCHANGED <<period_ns, flags, t_switch, t_next, expires, gpio, proc, obs, calls, life, thr>>

\* time passes up to the next expiry of a timer among the channels S
ElapseToDeadline(S) == ElapseToDeadlineBy(S, MaxTime)

\* time passes while an expired timer among the channels S waits for its callback
ElapseLate(S) == ElapseLateBy(S, MaxTime)

\* The clock of a driver left to run for ever.  servo_cb reads no clock, it
\* only adds to the expiry the timer holds, so a behaviour moved in time by a
\* whole frame is a behaviour again: times are kept relative to an origin that
\* moves one frame forward each time the clock reaches the end of the frame
\* after it.  A time recorded before the origin is forgotten (-1) at the next
\* move.
Rebase(t) == IF t < 0 THEN -1 ELSE t - SERVO_PERIOD

\* the earliest expiry among the timers
NextExpiry == CHOOSE e \in {expires[i] : i \in Chan} : \A j \in Chan : e <= expires[j]

\* the clock reaches the time t, after which no timer has expired
Advance(t) ==
    IF t >= SERVO_PERIOD
    THEN /\ now' = t - SERVO_PERIOD
         /\ expires' = [i \in Chan |-> expires[i] - SERVO_PERIOD]
         /\ obs' = [i \in Chan |-> [obs[i] EXCEPT !.at = Rebase(@), !.start_at = Rebase(@),
                                                   !.prev = Rebase(@)]]
    ELSE /\ now' = t
         /\ UNCHANGED <<expires, obs>>

\* no timer has expired: time passes up to the earliest expiry
TickToDeadline ==
    /\ \A i \in Chan : expires[i] > now
    /\ Advance(NextExpiry)
    /\ UNCHANGED <<period_ns, flags, t_switch, t_next, gpio, proc, calls, life, thr>>

\* a timer expires now: its callback is delivered late, by Latency; no more
\* time passes before the callback has run
TickLate ==
    /\ \E i \in Chan : expires[i] = now
    /\ now' = now + Latency
    /\ UNCHANGED <<period_ns, flags, t_switch, t_next, expires, gpio, proc, obs, calls, life, thr>>

\* --------------------------------------------------------- file operations
Returned(c, r, v) ==
    [proc EXCEPT ![c] = [@ EXCEPT !.pc = "opened", !.ret = r, !.val = v, !.arg = 0, !.old = 0,
                                  !.txt = <<>>]]

\* a control operation reached channel i during the current frame
Touched(i) == [obs EXCEPT ![i] = [@ EXCEPT !.clean = FALSE]]

\* the stored width of channel i was replaced by w, by <<how, the word given>>;
\* wr: the width changed while the pulse of the last "start" firing was on
WidthSet(i, w, by) ==
    [obs EXCEPT ![i] = [@ EXCEPT !.clean = FALSE,
                                 !.wr = @ \/ (w # period_ns[i] /\ obs[i].last = "start"),
                                 !.wv = by]]

\* a slip: every device file stands for servos[0]
open_idx_slip(minor) == 0

\* the channel of the device file with this minor number
open_idx(minor) == minor

\* servo_open, first half: the test of SERVO_OPEN
servo_open_test(c, i) ==
    /\ life.pc = "bound"
    /\ calls < MaxCalls /\ calls' = calls + 1
    /\ proc[c].pc = "closed"
    /\ IF test_bit(SERVO_OPEN, flags[open_idx(i)])
       THEN proc' = [proc EXCEPT ![c] = [@ EXCEPT !.ret = -1, !.val = 0]]
       ELSE proc' = [proc EXCEPT ![c] = [@ EXCEPT !.pc = "open_set", !.ch = open_idx(i),
                                                  !.val = 0]]
    /\ UNCHANGED <<period_ns, flags, t_switch, t_next, expires, gpio, now, obs, life, thr>>

\* servo_open, second half: set SERVO_OPEN, keep the channel in private_data
servo_open_set(c) ==
    /\ UNCHANGED calls
    /\ proc[c].pc = "open_set"
    /\ flags' = [flags EXCEPT ![proc[c].ch] = set_bit(SERVO_OPEN, @)]
    /\ proc' = [proc EXCEPT ![c] = [@ EXCEPT !.pc = "opened", !.ret = 0]]
    /\ UNCHANGED <<period_ns, t_switch, t_next, expires, gpio, now, obs, life, thr>>

\* servo_release
servo_release(c) ==
    /\ calls < MaxCalls /\ calls' = calls + 1
    /\ proc[c].pc = "opened"
    /\ flags' = [flags EXCEPT ![proc[c].ch] = clear_bit(SERVO_OPEN, @)]
    /\ proc' = [proc EXCEPT ![c] = [@ EXCEPT !.pc = "closed", !.ret = 0, !.val = 0,
                                             !.off = 0, !.txt = <<>>]]
    /\ UNCHANGED <<period_ns, t_switch, t_next, expires, gpio, now, obs, life, thr>>

\* a slip: the range check compares the word as a signed int
ioctl_clamp_slip(v) ==
    IF v < MIN_PERIOD THEN MIN_PERIOD
    ELSE IF v > MAX_PERIOD THEN MAX_PERIOD
    ELSE v

\* the range check of SERVO_WV
ioctl_clamp(v) ==
    IF U32Lt(v, MIN_PERIOD) THEN MIN_PERIOD
    ELSE IF U32Lt(MAX_PERIOD, v) THEN MAX_PERIOD
    ELSE v

\* the flags word after SERVO_ENB
ioctl_enb_flags(f) == set_bit(SERVO_ENABLED, clear_bit(SERVO_ACTIVE, f))

\* the flags word after SERVO_DIS
ioctl_dis_flags(f) == clear_bit(SERVO_ENABLED, f)

\* a slip: SERVO_INV sets the bit where it should toggle it
ioctl_inv_flags_slip(f) == set_bit(SERVO_INVERTED, f)

\* the flags word after SERVO_INV
ioctl_inv_flags(f) == change_bit(SERVO_INVERTED, f)

\* SERVO_WF, the enable half: the flags word after it
ioctl_wf_enable_flags(f, m) ==
    IF test_bit(SERVO_ENABLED, m) THEN set_bit(SERVO_ENABLED, f) ELSE clear_bit(SERVO_ENABLED, f)

\* SERVO_WF, the invert half: the flags word after it
ioctl_wf_invert_flags(f, m) ==
    IF test_bit(SERVO_INVERTED, m) THEN set_bit(SERVO_INVERTED, f) ELSE clear_bit(SERVO_INVERTED, f)

\* the word SERVO_RF builds
ioctl_rf_word(f) ==
    BoolToInt(test_bit(SERVO_ENABLED, f)) * Pow2(SERVO_ENABLED)
        + BoolToInt(test_bit(SERVO_INVERTED, f)) * Pow2(SERVO_INVERTED)

ioctl_ENB(c) ==
    /\ calls < MaxCalls /\ calls' = calls + 1
    /\ proc[c].pc = "opened"
    /\ flags' = [flags EXCEPT ![proc[c].ch] = ioctl_enb_flags(@)]
    /\ proc' = Returned(c, 0, 0)
    /\ obs' = Touched(proc[c].ch)
    /\ UNCHANGED <<period_ns, t_switch, t_next, expires, gpio, now, life, thr>>

ioctl_DIS(c) ==
    /\ calls < MaxCalls /\ calls' = calls + 1
    /\ proc[c].pc = "opened"
    /\ flags' = [flags EXCEPT ![proc[c].ch] = ioctl_dis_flags(@)]
    /\ proc' = Returned(c, 0, 0)
    /\ obs' = Touched(proc[c].ch)
    /\ UNCHANGED <<period_ns, t_switch, t_next, expires, gpio, now, life, thr>>

ioctl_INV(c) ==
    /\ calls < MaxCalls /\ calls' = calls + 1
    /\ proc[c].pc = "opened"
    /\ flags' = [flags EXCEPT ![proc[c].ch] = ioctl_inv_flags(@)]
    /\ proc' = Returned(c, 0, 0)
    /\ obs' = [obs EXCEPT ![proc[c].ch] = [@ EXCEPT !.clean = FALSE, !.inv = @ + 1]]
    /\ UNCHANGED <<period_ns, t_switch, t_next, expires, gpio, now, life, thr>>

\* SERVO_WF up to and including the update of SERVO_ENABLED; ok: the user
\* pointer can be read
ioctl_WF(c, m, ok) ==
    /\ calls < MaxCalls /\ calls' = calls + 1
    /\ proc[c].pc = "opened"
    /\ IF ok
       THEN /\ flags' = [flags EXCEPT ![proc[c].ch] = ioctl_wf_enable_flags(@, m)]
            /\ proc' = [proc EXCEPT ![c] = [@ EXCEPT !.pc = "wf_invert", !.arg = m,
                                                      !.old = flags[proc[c].ch], !.val = 0]]
            /\ obs' = Touched(proc[c].ch)
       ELSE /\ proc' = Returned(c, -1, 0)
            /\ UNCHANGED <<flags, obs>>
    /\ UNCHANGED <<period_ns, t_switch, t_next, expires, gpio, now, life, thr>>

\* SERVO_WF from the update of SERVO_INVERTED to its return
ioctl_WF_invert(c) ==
    /\ UNCHANGED calls
    /\ proc[c].pc = "wf_invert"
    /\ flags' = [flags EXCEPT ![proc[c].ch] = ioctl_wf_invert_flags(@, proc[c].arg)]
    /\ proc' = Returned(c, 0, 0)
    /\ obs' = Touched(proc[c].ch)
    /\ UNCHANGED <<period_ns, t_switch, t_next, expires, gpio, now, life, thr>>

ioctl_RF(c, ok) ==
    /\ calls < MaxCalls /\ calls' = calls + 1
    /\ proc[c].pc = "opened"
    /\ proc' = IF ok THEN Returned(c, 0, ioctl_rf_word(flags[proc[c].ch]))
                     ELSE Returned(c, -2, 0)
    /\ UNCHANGED <<period_ns, flags, t_switch, t_next, expires, gpio, now, obs, life, thr>>

ioctl_WV(c, v, ok) ==
    /\ calls < MaxCalls /\ calls' = calls + 1
    /\ proc[c].pc = "opened"
    /\ IF ok
       THEN /\ period_ns' = [period_ns EXCEPT ![proc[c].ch] = ioctl_clamp(v)]
            /\ proc' = Returned(c, 0, 0)
            /\ obs' = WidthSet(proc[c].ch, period_ns'[proc[c].ch], <<"ioctl", v>>)
       ELSE /\ proc' = Returned(c, -3, 0)
            /\ UNCHANGED <<period_ns, obs>>
    /\ UNCHANGED <<flags, t_switch, t_next, expires, gpio, now, life, thr>>

ioctl_RV(c, ok) ==
    /\ calls < MaxCalls /\ calls' = calls + 1
    /\ proc[c].pc = "opened"
    /\ proc' = IF ok THEN Returned(c, 0, period_ns[proc[c].ch])
                     ELSE Returned(c, -4, 0)
    /\ UNCHANGED <<period_ns, flags, t_switch, t_next, expires, gpio, now, obs, life, thr>>

\* any other command
ioctl_default(c) ==
    /\ calls < MaxCalls /\ calls' = calls + 1
    /\ proc[c].pc = "opened"
    /\ proc' = Returned(c, -5, 0)
    /\ UNCHANGED <<period_ns, flags, t_switch, t_next, expires, gpio, now, obs, life, thr>>

servo_ioctl(c) ==
    \/ ioctl_ENB(c)
    \/ ioctl_DIS(c)
    \/ ioctl_INV(c)
    \/ \E m \in FlagInputs, ok \in BOOLEAN : ioctl_WF(c, m, ok)
    \/ ioctl_WF_invert(c)
    \/ \E ok \in BOOLEAN : ioctl_RF(c, ok)
    \/ \E v \in WidthInputs, ok \in BOOLEAN : ioctl_WV(c, v, ok)
    \/ \E ok \in BOOLEAN : ioctl_RV(c, ok)
    \/ ioctl_default(c)

\* ------------------------------------------------------------ textual write
Digits == {"0", "1", "2", "3", "4", "5", "6", "7", "8", "9"}

DigitVal(ch) ==
    CASE ch = "0" -> 0 [] ch = "1" -> 1 [] ch = "2" -> 2 [] ch = "3" -> 3 [] ch = "4" -> 4
      [] ch = "5" -> 5 [] ch = "6" -> 6 [] ch = "7" -> 7 [] ch = "8" -> 8 [] ch = "9" -> 9

isspace(ch) == ch \in {" ", "\n"}

\* skip_spaces: the string from its first byte that is not white space
RECURSIVE skip_spaces(_)
skip_spaces(s) == IF s # <<>> /\ isspace(Head(s)) THEN skip_spaces(Tail(s)) ELSE s

\* the value of the decimal digits s starts with, continuing from acc
RECURSIVE strtoull(_, _)
strtoull(s, acc) ==
    IF s # <<>> /\ Head(s) \in Digits
    THEN strtoull(Tail(s), 10 * acc + DigitVal(Head(s)))
    ELSE acc

\* sscanf(kbuf, "%d\n", &period_ns) on the bytes up to the terminating NUL:
\* <<>> when nothing is converted, else <<the word stored>>
sscanf_d(kbuf) ==
    LET str == skip_spaces(kbuf)
        neg == str # <<>> /\ Head(str) = "-"
        num == IF neg THEN Tail(str) ELSE str
    IN  IF num = <<>> \/ Head(num) \notin Digits
        THEN <<>>
        ELSE <<IF neg THEN 0 - strtoull(num, 0) ELSE strtoull(num, 0)>>

\* a slip: the upper limit is not applied
write_clamp_slip(v) == IF U32Lt(v, MIN_PERIOD) THEN MIN_PERIOD ELSE v

\* the range check of servo_write
write_clamp(v) ==
    IF U32Lt(v, MIN_PERIOD) THEN MIN_PERIOD
    ELSE IF U32Lt(MAX_PERIOD, v) THEN MAX_PERIOD
    ELSE v

\* the bytes copied from user space
write_klen(len) == IF len < 15 THEN len ELSE 15

\* kbuf as sscanf reads it: the klen bytes copied, then the byte kbuf[klen],
\* which nothing has written, then the NUL stored at kbuf[klen+1] (inside
\* kbuf for the texts of TextInputs, all shorter than 15 bytes)
write_kbuf(text, junk) == SubSeq(text, 1, write_klen(Len(text))) \o <<junk>>

\* servo_write; ok: the user buffer can be read
servo_write(c, text, junk, ok) ==
    /\ calls < MaxCalls /\ calls' = calls + 1
    /\ proc[c].pc = "opened"
    /\ LET klen == write_klen(Len(text))
           got == sscanf_d(write_kbuf(text, junk))
       IN  IF ~ok
           THEN /\ proc' = Returned(c, 0, 0)
                /\ UNCHANGED <<period_ns, obs>>
           ELSE IF got = <<>>
           THEN /\ proc' = Returned(c, klen, 0)
                /\ UNCHANGED <<period_ns, obs>>
           ELSE /\ period_ns' = [period_ns EXCEPT ![proc[c].ch] = write_clamp(got[1])]
                /\ proc' = Returned(c, klen, 0)
                /\ obs' = WidthSet(proc[c].ch, period_ns'[proc[c].ch], <<"write", got[1]>>)
    /\ UNCHANGED <<flags, t_switch, t_next, expires, gpio, now, life, thr>>

\* ------------------------------------------------------------- textual read
DigitChar(d) == CHOOSE ch \in Digits : DigitVal(ch) = d

\* the decimal digits of n, for 0 <= n < 2^31 (the stored width is such a word)
RECURSIVE utoa(_)
utoa(n) == IF n < 10 THEN <<DigitChar(n)>> ELSE utoa(n \div 10) \o <<DigitChar(n % 10)>>

\* the bytes snprintf(kbuf, 16, "%u\n", period_ns) writes before the NUL
snprintf_u(n) == LET out == utoa(n) \o <<"\n">> IN SubSeq(out, 1, IF Len(out) < 15 THEN Len(out) ELSE 15)

\* the bytes copied out: min(len, klen)
read_min(len, klen) == IF len < klen THEN len ELSE klen

\* servo_read; ok: the user buffer can be written
servo_read(c, len, ok) ==
    /\ calls < MaxCalls /\ calls' = calls + 1
    /\ proc[c].pc = "opened"
    /\ LET kbuf == snprintf_u(period_ns[proc[c].ch])
           min == read_min(len, Len(kbuf))
       IN  IF proc[c].off > 0 \/ ~ok
           THEN proc' = Returned(c, 0, 0)
           ELSE proc' = [Returned(c, min, 0) EXCEPT ![c].off = @ + min,
                                                    ![c].txt = SubSeq(kbuf, 1, min)]
    /\ UNCHANGED <<period_ns, flags, t_switch, t_next, expires, gpio, now, obs, life, thr>>

\* ------------------------------------------------------ probe and remove
\* a slip: the line is forced before the timer is cancelled
teardown_order_slip == <<"set", "cancel", "put">>

\* the calls the loop at gpio_fail and the loop of servo_remove make on a
\* channel, in their order: hrtimer_cancel, gpiod_set_value(.., 0), gpiod_put
teardown_order == <<"cancel", "set", "put">>

\* one pass of the loop over the channels in servo_probe: the line is
\* requested as an output driven high, the record is set up and the timer is
\* started MIN_PERIOD from now; ok: gpiod_get_index returns a line
probe_gpio(ok) ==
    /\ life.pc = "gpio"
    /\ IF ok
       THEN /\ gpio' = [gpio EXCEPT ![life.i] = 1]
            /\ period_ns' = [period_ns EXCEPT ![life.i] = MIN_PERIOD]
            /\ flags' = [flags EXCEPT ![life.i] = 0]
            /\ expires' = [expires EXCEPT ![life.i] = now + MIN_PERIOD]
            /\ life' = [life EXCEPT !.held = @ \cup {life.i}, !.armed = @ \cup {life.i},
                                    !.i = IF life.i + 1 < n_servos THEN life.i + 1 ELSE 0,
                                    !.pc = IF life.i + 1 < n_servos THEN "gpio" ELSE "class"]
       ELSE /\ life' = [life EXCEPT !.pc = "gpio_fail", !.k = life.i, !.i = 0, !.step = 1]
            /\ UNCHANGED <<gpio, period_ns, flags, expires>>
    /\ UNCHANGED <<t_switch, t_next, now, proc, obs, calls, thr>>

\* class_create, cdev_add and the device_create of every channel; a failure
\* of any of them ends, after its own clean-up, at gpio_fail
probe_devices(ok) ==
    /\ life.pc = "class"
    /\ life' = IF ok THEN [life EXCEPT !.pc = "bound"]
                     ELSE [life EXCEPT !.pc = "gpio_fail", !.k = n_servos, !.i = 0, !.step = 1]
    /\ UNCHANGED <<period_ns, flags, t_switch, t_next, expires, gpio, now, proc, obs, calls, thr>>

\* servo_remove is entered
remove_begin ==
    /\ life.pc = "bound"
    /\ life' = [life EXCEPT !.pc = "remove", !.i = 0, !.step = 1]
    /\ UNCHANGED <<period_ns, flags, t_switch, t_next, expires, gpio, now, proc, obs, calls, thr>>

\* the channel i of servos[] was set up by servo_probe
SetUp(i) == life.k = -1 \/ i < life.k

\* the loop has made the call named by life.step on channel life.i: on to
\* the next call, the next channel, or the end of the loop
teardown_done(l, call) ==
    [l EXCEPT !.log = Append(@, <<call, l.i>>),
              !.step = IF l.step < Len(teardown_order) THEN l.step + 1 ELSE 1,
              !.i = IF l.step < Len(teardown_order) THEN l.i
                    ELSE IF l.i + 1 < n_servos THEN l.i + 1 ELSE 0,
              !.pc = IF l.step < Len(teardown_order) \/ l.i + 1 < n_servos THEN l.pc
                     ELSE IF l.pc = "remove" THEN "removed" ELSE "failed"]

\* the call was made on a record that was never set up and did not return
teardown_oops(l, call) == [l EXCEPT !.log = Append(@, <<call, l.i>>), !.pc = "oops"]

\* one call of the loop at gpio_fail (where = "gpio_fail") or of the loop of
\* servo_remove (where = "remove").  The loop runs over every channel of
\* servos[]; on a channel that servo_probe never set up the timer and the
\* line pointer are whatever kmalloc left (or an error pointer), and the call
\* either returns having done nothing or does not return (oops).
teardown_call(where, oops) ==
    /\ life.pc = where
    /\ LET i == life.i
           call == teardown_order[life.step]
       IN  IF SetUp(i)
           THEN /\ ~oops
                /\ gpio' = IF call = "set" THEN [gpio EXCEPT ![i] = 0] ELSE gpio
                /\ life' = [teardown_done(life, call) EXCEPT
                               !.armed = IF call = "cancel" THEN @ \ {i} ELSE @,
                               !.held = IF call = "put" THEN @ \ {i} ELSE @]
           ELSE /\ life' = IF oops THEN teardown_oops(life, call) ELSE teardown_done(life, call)
                /\ UNCHANGED gpio
    /\ UNCHANGED <<period_ns, flags, t_switch, t_next, expires, now, proc, obs, calls, thr>>

\* ------------------------------------------------- the busy-loop variant
\* the / and % of C on long: the quotient is truncated towards zero
c_div(a, b) == IF a >= 0 THEN a \div b ELSE 0 - ((0 - a) \div b)
c_mod(a, b) == a - b * c_div(a, b)

\* the time a struct timespec stands for, in ns
TsNs(t) == t.tv_sec * NSEC_PER_SEC + t.tv_nsec

\* clock_gettime(CLOCK_MONOTONIC)
clock_gettime == Ts((thr.epoch + now) \div NSEC_PER_SEC, (thr.epoch + now) % NSEC_PER_SEC)

\* tv_sec += tv_nsec / 1000000000; tv_nsec = tv_nsec % 1000000000
ts_carry(t) == Ts(t.tv_sec + c_div(t.tv_nsec, NSEC_PER_SEC), c_mod(t.tv_nsec, NSEC_PER_SEC))

\* the deadline of the end of the pulse: the start of the frame plus the width
thr_t_switch(tn, w) == ts_carry(Ts(tn.tv_sec, tn.tv_nsec + w))

\* the deadline of the end of the frame
thr_t_next(tn) == ts_carry(Ts(tn.tv_sec, tn.tv_nsec + FRAME_NS))

\* the width main() stores for the value typed, val thousandths: the product
\* and the conversion to int32_t are exact for the values of ValInputs
main_pulse_ns(val) == ((SERVO_MAX - SERVO_MIN) \div 1000) * val + SERVO_MIN

\* servo_channel up to its loop; e: what CLOCK_MONOTONIC shows at the time 0
\* of the model; ok: /dev/mem can be opened and mapped
thr_start(e, ok) ==
    /\ thr.pc = "off"
    /\ thr' = IF ok
              THEN LET th == [thr EXCEPT !.epoch = e]
                       t == Ts((e + now) \div NSEC_PER_SEC, (e + now) % NSEC_PER_SEC)
                   IN  [th EXCEPT !.pc = "frame", !.pulse_ns = SERVO_MIN, !.dat = 1,
                                  !.t_next = t, !.t0 = t]
              ELSE [thr EXCEPT !.pc = "done", !.pulse_ns = -1]
    /\ UNCHANGED <<period_ns, flags, t_switch, t_next, expires, gpio, now, proc, obs, calls, life>>

\* the top of the loop: the line is toggled and pulse_ns is tested
thr_frame ==
    /\ thr.pc = "frame"
    /\ thr' = [thr EXCEPT !.dat = 1 - @, !.pc = IF thr.pulse_ns < 0 THEN "exit" ELSE "compute"]
    /\ UNCHANGED <<period_ns, flags, t_switch, t_next, expires, gpio, now, proc, obs, calls, life>>

\* the two deadlines of the frame are computed; pulse_ns is read again
thr_compute ==
    /\ thr.pc = "compute"
    /\ thr' = [thr EXCEPT !.t_switch = thr_t_switch(thr.t_next, thr.pulse_ns),
                          !.t_next = thr_t_next(thr.t_next),
                          !.k = @ + 1, !.w = thr.pulse_ns, !.pc = "sleep_switch"]
    /\ UNCHANGED <<period_ns, flags, t_switch, t_next, expires, gpio, now, proc, obs, calls, life>>

\* clock_nanosleep(TIMER_ABSTIME) returns once the deadline is reached, or at
\* once with EINVAL for a tv_nsec outside 0 .. 999999999
Woken(t) == now + thr.epoch >= TsNs(t) \/ t.tv_nsec < 0

\* the sleep to t_switch ends and the line is toggled
thr_switch ==
    /\ thr.pc = "sleep_switch"
    /\ Woken(thr.t_switch)
    /\ thr' = [thr EXCEPT !.dat = 1 - @, !.pc = "sleep_next"]
    /\ UNCHANGED <<period_ns, flags, t_switch, t_next, expires, gpio, now, proc, obs, calls, life>>

\* the sleep to t_next ends
thr_next ==
    /\ thr.pc = "sleep_next"
    /\ Woken(thr.t_next)
    /\ thr' = [thr EXCEPT !.pc = "frame"]
    /\ UNCHANGED <<period_ns, flags, t_switch, t_next, expires, gpio, now, proc, obs, calls, life>>

\* after the loop: the line is cleared and the thread returns
thr_exit ==
    /\ thr.pc = "exit"
    /\ thr' = [thr EXCEPT !.dat = 0, !.pc = "done"]
    /\ UNCHANGED <<period_ns, flags, t_switch, t_next, expires, gpio, now, proc, obs, calls, life>>

\* main(), having seen pulse_ns > 0, reads a value and stores the width, or
\* -1 for a negative value
main_set(val) ==
    /\ thr.pulse_ns > 0
    /\ thr' = [thr EXCEPT !.pulse_ns = IF val < 0 THEN -1 ELSE main_pulse_ns(val)]
    /\ thr'.pulse_ns # thr.pulse_ns
    /\ UNCHANGED <<period_ns, flags, t_switch, t_next, expires, gpio, now, proc, obs, calls, life>>

\* the deadline the thread is asleep to
ThrDeadline == IF thr.pc = "sleep_switch" THEN TsNs(thr.t_switch) ELSE TsNs(thr.t_next)

\* time passes up to the deadline the thread is asleep to
thr_elapse ==
    /\ thr.pc \in {"sleep_switch", "sleep_next"}
    /\ ThrDeadline > now + thr.epoch
    /\ ThrDeadline - TsNs(thr.t0) <= FreeTime
    /\ now' = ThrDeadline - thr.epoch
    /\ UNCHANGED <<period_ns, flags, t_switch, t_next, expires, gpio, proc, obs, calls, life, thr>>

\* time passes while the thread, its deadline reached, waits to run
thr_elapse_late ==
    /\ thr.pc \in {"sleep_switch", "sleep_next"}
    /\ ThrDeadline = now + thr.epoch
    /\ now + Latency + thr.epoch - TsNs(thr.t0) <= FreeTime
    /\ now' = now + Latency
    /\ UNCHANGED <<period_ns, flags, t_switch, t_next, expires, gpio, proc, obs, calls, life, thr>>

\* ------------------------------------------------------------ specification
\* the steps in which the channels S are the ones that act
NextOn(S) ==
    \/ \E i \in S : servo_cb(i)
    \/ ElapseToDeadline(S)
    \/ ElapseLate(S)
    \/ \E c \in Callers, i \in S : servo_open_test(c, i)
    \/ \E c \in Callers : servo_open_set(c)
    \/ \E c \in Callers : servo_release(c)
    \/ \E c \in Callers : servo_ioctl(c)
    \/ \E c \in Callers, text \in TextInputs, junk \in StackBytes, ok \in BOOLEAN :
          servo_write(c, text, junk, ok)

Next == NextOn(Chan)

\* every channel acts
Spec == Init /\ [][Next]_vars

\* The driver with one channel in use: channel 0 is opened and driven by both
\* callers and its timer runs; the other channels stay as servo_probe left
\* them.  The channels share no field, so what holds of channel 0 here is
\* what holds of any one channel.
NextChan0 == NextOn({0})

SpecChan0 == Init /\ [][NextChan0]_vars

\* The same with the whole text interface of the device file: read(2), and
\* write(2) of a text of white space only next to the texts of TextInputs.
NextText ==
    \/ NextChan0
    \/ \E c \in Callers, len \in ReadLens, ok \in BOOLEAN : servo_read(c, len, ok)
    \/ \E c \in Callers, junk \in StackBytes, ok \in BOOLEAN : servo_write(c, BlankText, junk, ok)

SpecText == Init /\ [][NextText]_vars

\* The timer of channel 0 left to run: caller "p" opens the channel, enables
\* it and may set a width before the first firing, and makes no call after it;
\* every firing is delivered on time or late.
NextFree ==
    \/ servo_cb(0)
    \/ ElapseToDeadlineBy({0}, FreeTime)
    \/ ElapseLateBy({0}, FreeTime)
    \/ obs[0].last = "none" /\ servo_open_test("p", 0)
    \/ obs[0].last = "none" /\ servo_open_set("p")
    \/ obs[0].last = "none" /\ ioctl_ENB("p")
    \/ \E v \in WidthInputs : obs[0].last = "none" /\ ioctl_WV("p", v, TRUE)

SpecFree == Init /\ [][NextFree]_vars

\* The driver left to run for ever with caller "p" on channel 0: the timers
\* of all the channels fire, on time or late by Latency, and an expired timer
\* is delivered before more time passes.
NextLive ==
    \/ \E i \in Chan : servo_cb(i)
    \/ TickToDeadline
    \/ TickLate
    \/ servo_open_test("p", 0)
    \/ servo_open_set("p")
    \/ servo_release("p")
    \/ servo_ioctl("p")
    \/ \E text \in TextInputs, junk \in StackBytes, ok \in BOOLEAN :
          servo_write("p", text, junk, ok)

\* hrtimer runs the callback of an expired timer, and the clock goes on; a
\* process may stop calling at any point
SpecLive ==
    /\ Init /\ [][NextLive]_vars
    /\ WF_vars(TickToDeadline)
    /\ \A i \in Chan : WF_vars(servo_cb(i))

\* The busy-loop variant: its thread, main() at its prompt, and the clock.
NextThread ==
    \/ \E e \in ThreadStarts, ok \in BOOLEAN : thr_start(e, ok)
    \/ thr_frame
    \/ thr_compute
    \/ thr_switch
    \/ thr_next
    \/ thr_exit
    \/ \E val \in ValInputs : main_set(val)
    \/ thr_elapse
    \/ thr_elapse_late

SpecThread == Init /\ [][NextThread]_vars

\* The driver with every channel in use, each by a caller of its own: caller
\* "p" holds the device file of channel 0 and caller "q" that of channel 1.
PairOpens == {<<"p", 0>>, <<"q", 1>>}

\* every timer runs and each caller makes every file operation on its own
\* file, with one argument for each operation that takes one
NextPair ==
    \/ \E i \in Chan : servo_cb(i)
    \/ ElapseToDeadline(Chan)
    \/ ElapseLate(Chan)
    \/ \E o \in PairOpens : servo_open_test(o[1], o[2])
    \/ \E c \in Callers : servo_open_set(c)
    \/ \E c \in Callers : servo_release(c)
    \/ \E c \in Callers : ioctl_ENB(c)
    \/ \E c \in Callers : ioctl_DIS(c)
    \/ \E c \in Callers : ioctl_INV(c)
    \/ \E c \in Callers : ioctl_WF(c, 3, TRUE)
    \/ \E c \in Callers : ioctl_WF_invert(c)
    \/ \E c \in Callers : ioctl_RF(c, TRUE)
    \/ \E c \in Callers : ioctl_WV(c, 1500000, TRUE)
    \/ \E c \in Callers : ioctl_RV(c, TRUE)
    \/ \E c \in Callers : ioctl_default(c)
    \/ \E c \in Callers : servo_write(c, <<"3","0","0","0","0","0","0","\n">>, "0", TRUE)
    \/ \E c \in Callers : servo_read(c, 16, TRUE)

SpecPair == Init /\ [][NextPair]_vars

\* The life of the driver: servo_probe from its loop over the channels, with
\* every outcome of its calls, the timers it has started, caller "p" enabling
\* and inverting channel 0 once the driver is bound, and servo_remove.
NextLife ==
    \/ \E ok \in BOOLEAN : probe_gpio(ok)
    \/ \E ok \in BOOLEAN : probe_devices(ok)
    \/ \E oops \in BOOLEAN : teardown_call("gpio_fail", oops)
    \/ remove_begin
    \/ teardown_call("remove", FALSE)
    \/ \E i \in Chan : servo_cb(i)
    \/ ElapseToDeadline(Chan)
    \/ ElapseLate(Chan)
    \/ servo_open_test("p", 0)
    \/ servo_open_set("p")
    \/ life.pc = "bound" /\ ioctl_ENB("p")
    \/ life.pc = "bound" /\ ioctl_INV("p")

SpecLife == InitLoad /\ [][NextLife]_vars

\* ------------------------------------------------------------------ claims
Enabled(i) == test_bit(SERVO_ENABLED, flags[i])
Inverted(i) == test_bit(SERVO_INVERTED, flags[i])
Active(i) == test_bit(SERVO_ACTIVE, flags[i])

\* C1: in a frame that begins with a "start" firing of a channel that is not
\* inverted, and in which no control operation reaches the channel, the line
\* is HIGH from the expiry the pulse began at until that expiry plus the
\* stored width W, then LOW until that expiry plus 20,000,000 ns, where the
\* channel, still enabled and idle, begins the next pulse.
C1_FrameShape ==
    \A i \in Chan :
        /\ obs[i].clean =>
              /\ Enabled(i) /\ ~Inverted(i)
              /\ obs[i].last \in {"start", "end"}
              /\ obs[i].last = "start" =>
                    /\ Active(i) /\ gpio[i] = 1
                    /\ expires[i] = obs[i].start_at + period_ns[i]
              /\ obs[i].last = "end" =>
                    /\ ~Active(i) /\ gpio[i] = 0
                    /\ obs[i].at = obs[i].start_at + period_ns[i]
                    /\ obs[i].at + (SERVO_PERIOD - period_ns[i]) = expires[i]
                    /\ expires[i] = obs[i].start_at + SERVO_PERIOD
        /\ obs[i].prev >= 0 => obs[i].start_at = obs[i].prev + SERVO_PERIOD

\* a frame of width 1,500,000 ns ran undisturbed and the next pulse has begun
C1_Witness ==
    \E i \in Chan :
        /\ obs[i].clean /\ obs[i].last = "start" /\ obs[i].prev >= 0
        /\ period_ns[i] = 1500000

\* C2: the duration the timer is re-armed with when a pulse begins and the
\* one it is re-armed with when that pulse ends add up to 20,000,000 ns,
\* whatever was written to the width in between.
C2_FrameSum ==
    \A i \in Chan : obs[i].lo >= 0 => obs[i].hi + obs[i].lo = SERVO_PERIOD

\* a pulse has ended whose width was rewritten, to another value, while it was on
C2_Witness ==
    \E i \in Chan : obs[i].lo >= 0 /\ obs[i].wr /\ period_ns[i] # obs[i].hi

\* C3: the stored width of every channel is within [1,000,000, 2,000,000].
C3_WidthInRange ==
    \A i \in Chan : MIN_PERIOD <= period_ns[i] /\ period_ns[i] <= MAX_PERIOD

\* a textual write of a number above the range has been committed
C3_Witness ==
    \E i \in Chan : obs[i].wv = <<"write", 3000000>> /\ period_ns[i] = MAX_PERIOD

\* the width the claim C4 expects after SERVO_WV of the word v (a word with
\* the top bit set, written v < 0 here, is above 2,000,000)
C4_Expected(v) ==
    IF 0 <= v /\ v < 1000000 THEN 1000000
    ELSE IF v < 0 \/ v > 2000000 THEN 2000000
    ELSE v

\* C4: SERVO_RV with a writable buffer, after SERVO_WV(v) on the same channel
\* with no other width write in between, returns 0 and yields v clamped to
\* [1,000,000, 2,000,000].
C4_WriteThenReadWidth ==
    [][\A c \in Callers :
          (ioctl_RV(c, TRUE) /\ obs[proc[c].ch].wv # <<>> /\ obs[proc[c].ch].wv[1] = "ioctl")
              => /\ proc'[c].ret = 0
                 /\ proc'[c].val = C4_Expected(obs[proc[c].ch].wv[2])]_vars

\* SERVO_RV has yielded 2,000,000 after SERVO_WV of the word 0xFFFFFFFF
C4_Witness ==
    \E c \in Callers :
        /\ proc[c].pc = "opened" /\ proc[c].ret = 0 /\ proc[c].val = MAX_PERIOD
        /\ obs[proc[c].ch].wv = <<"ioctl", -1>>

\* C5: a step that changes the stored width changes neither the expiry of
\* the timer nor t_switch, t_next, the flags or the line; the firing that
\* begins a pulse re-arms with the width stored at that moment; the firing
\* that ends a pulse re-arms with 20,000,000 ns less the width that was
\* stored when the pulse began.
C5_DeferredWidth ==
    [][\A i \in Chan :
          /\ period_ns'[i] # period_ns[i] =>
                /\ expires'[i] = expires[i] /\ t_next'[i] = t_next[i]
                /\ t_switch'[i] = t_switch[i] /\ flags'[i] = flags[i] /\ gpio'[i] = gpio[i]
          /\ (~Active(i) /\ test_bit(SERVO_ACTIVE, flags'[i])) =>
                expires'[i] - expires[i] = period_ns[i]
          /\ (Active(i) /\ Enabled(i) /\ expires'[i] # expires[i]) =>
                expires'[i] - expires[i] = SERVO_PERIOD - obs[i].w_read]_vars

\* a pulse has ended whose width was rewritten while it was on
C5_Witness ==
    \E i \in Chan : obs[i].last = "end" /\ obs[i].wr /\ period_ns[i] # obs[i].w_read

\* C6: a channel that the last firing found disabled, and that is disabled
\* still, has its line at the idle level its inverted flag names (LOW when
\* not inverted, HIGH when inverted).
C6_DisabledLineIdle ==
    \A i \in Chan :
        (obs[i].last = "skip" /\ ~Enabled(i)) => gpio[i] = BoolToInt(Inverted(i))

\* C7: the next expiry is never more than 20,000,000 ns away; a firing that
\* finds the channel disabled begins no pulse; and the first firing that
\* finds the channel enabled after a firing that found it disabled begins a
\* pulse, with the stored width and at the level the inverted flag names.
C7_EnableTakesEffect ==
    [][\A i \in Chan :
          /\ expires[i] - now <= SERVO_PERIOD
          /\ (servo_cb(i) /\ ~Enabled(i)) =>
                /\ gpio'[i] = gpio[i]
                /\ test_bit(SERVO_ACTIVE, flags'[i]) = Active(i)
          /\ (servo_cb(i) /\ Enabled(i) /\ obs[i].last = "skip") =>
                /\ test_bit(SERVO_ACTIVE, flags'[i])
                /\ gpio'[i] = BoolToInt(~Inverted(i))
                /\ expires'[i] = expires[i] + period_ns[i]]_vars

\* C8: SERVO_ENB on an enabled channel and SERVO_DIS on a disabled one
\* return 0 and leave the flags, the width, the timer and the line of the
\* channel as they were.
C8_RedundantEnableDisable ==
    [][\A c \in Callers :
          ((ioctl_ENB(c) /\ Enabled(proc[c].ch)) \/ (ioctl_DIS(c) /\ ~Enabled(proc[c].ch)))
              => /\ proc'[c].ret = 0
                 /\ flags' = flags /\ period_ns' = period_ns /\ expires' = expires
                 /\ t_switch' = t_switch /\ t_next' = t_next /\ gpio' = gpio]_vars

\* SERVO_WF of caller c has written enabled and not yet inverted, and the
\* flags word of its channel is neither the one the call found nor the one
\* it will leave
Torn(c) ==
    /\ proc[c].pc = "wf_invert"
    /\ test_bit(SERVO_ENABLED, proc[c].old) # test_bit(SERVO_ENABLED, proc[c].arg)
    /\ test_bit(SERVO_INVERTED, proc[c].old) # test_bit(SERVO_INVERTED, proc[c].arg)
    /\ Inverted(proc[c].ch) = test_bit(SERVO_INVERTED, proc[c].old)
    /\ Enabled(proc[c].ch) = test_bit(SERVO_ENABLED, proc[c].arg)

\* C9: while a SERVO_WF has updated one of enabled and inverted and not the
\* other, neither the timer callback of the channel nor a SERVO_RF of another
\* caller on it runs.
C9_WriteFlagsAtomic ==
    [][\A c \in Callers :
          Torn(c) =>
              /\ ~servo_cb(proc[c].ch)
              /\ \A d \in Callers \ {c} :
                    proc[d].ch = proc[c].ch => ~(\E ok \in BOOLEAN : ioctl_RF(d, ok))]_vars

\* the callers that hold an open file of channel i
Sessions(i) == {c \in Callers : proc[c].pc \in {"opened", "wf_invert"} /\ proc[c].ch = i}

\* C10: no channel has more than one open session.
C10_SingleSession == \A i \in Chan : Cardinality(Sessions(i)) <= 1

\* the width the claim C11 expects after a textual write of the integer v
C11_Expected(v) ==
    IF v < 1000000 THEN 1000000
    ELSE IF v > 2000000 THEN 2000000
    ELSE v

\* C11: a textual write whose text parses as the decimal integer v stores
\* 1,000,000 when v < 1,000,000 (v negative included), 2,000,000 when
\* v > 2,000,000 and v otherwise, and a read(2) from the start of the file
\* into a buffer that holds the whole line yields the stored width in decimal.
C11_TextWriteClamps ==
    [][\A c \in Callers :
          /\ \A text \in TextInputs \cup {BlankText}, junk \in StackBytes :
                (servo_write(c, text, junk, TRUE) /\ sscanf_d(text) # <<>>)
                    => period_ns'[proc[c].ch] = C11_Expected(sscanf_d(text)[1])
          /\ (servo_read(c, 16, TRUE) /\ proc[c].off = 0)
                    => sscanf_d(proc'[c].txt) = <<period_ns[proc[c].ch]>>]_vars

\* C12: a textual write whose text does not parse as an integer returns
\* min(len, 15) and leaves the width, the flags, the timer and the line of
\* every channel as they were.
C12_UnparsedWriteNoChange ==
    [][\A c \in Callers, text \in TextInputs \cup {BlankText}, junk \in StackBytes :
          (servo_write(c, text, junk, TRUE) /\ sscanf_d(text) = <<>>)
              => /\ proc'[c].ret = write_klen(Len(text))
                 /\ period_ns' = period_ns /\ flags' = flags /\ expires' = expires
                 /\ t_switch' = t_switch /\ t_next' = t_next /\ gpio' = gpio]_vars

\* C13: SERVO_INV returns 0, toggles SERVO_INVERTED and leaves every other
\* flag bit (enabled, phase, open) and the stored width as they were, and a
\* second SERVO_INV applied to the flags it leaves gives back the flags it
\* found.
C13_InvertOnly ==
    [][\A c \in Callers :
          ioctl_INV(c) =>
              /\ proc'[c].ret = 0
              /\ test_bit(SERVO_INVERTED, flags'[proc[c].ch]) # Inverted(proc[c].ch)
              /\ \A b \in {SERVO_ENABLED, SERVO_ACTIVE, SERVO_OPEN} :
                    test_bit(b, flags'[proc[c].ch]) = test_bit(b, flags[proc[c].ch])
              /\ period_ns' = period_ns
              /\ ioctl_inv_flags(flags'[proc[c].ch]) = flags[proc[c].ch]]_vars

\* SERVO_INV was applied twice to an enabled channel, which is open still and
\* not inverted again
C13_Witness ==
    \E i \in Chan :
        obs[i].inv = 2 /\ ~Inverted(i) /\ Enabled(i) /\ test_bit(SERVO_OPEN, flags[i])

\* a step of a file operation of caller c on the file it holds
FileOp(c) ==
    \/ servo_open_set(c)
    \/ servo_release(c)
    \/ servo_ioctl(c)
    \/ \E text \in TextInputs \cup {BlankText}, junk \in StackBytes, ok \in BOOLEAN :
          servo_write(c, text, junk, ok)
    \/ \E len \in ReadLens, ok \in BOOLEAN : servo_read(c, len, ok)

\* the step leaves the width, flags, deadlines and line of channel j alone
Same(j) ==
    /\ period_ns'[j] = period_ns[j] /\ flags'[j] = flags[j] /\ gpio'[j] = gpio[j]
    /\ t_switch'[j] = t_switch[j] /\ t_next'[j] = t_next[j] /\ expires'[j] = expires[j]

\* C14: a firing of the timer of channel i, and every step of an open,
\* release, read, write or ioctl on the device file of channel i, leaves the
\* width, the flags (phase included), t_switch, t_next, the timer expiry and
\* the line of every other channel as they were.
\* (each implication "step of channel i => the others are left alone" is
\* written with its conclusion first)
C14_IndexIsolation ==
    [][/\ \A i \in Chan : (\A j \in Chan \ {i} : Same(j)) \/ ~servo_cb(i)
       /\ \A o \in PairOpens :
             \/ \A j \in Chan \ {o[2]} : Same(j)
             \/ ~(servo_open_test(o[1], o[2]) \/ FileOp(o[1]))]_vars

\* channel 0 was enabled through its file and is in its pulse, channel 1 was
\* given a width through its own file and skips its frames, and each has the
\* width and the expiry its own operations left
C14_Witness ==
    /\ Enabled(0) /\ Active(0) /\ period_ns[0] = MIN_PERIOD
    /\ ~Enabled(1) /\ obs[1].last = "skip" /\ period_ns[1] = 1500000
    /\ expires[0] # expires[1]

\* C15: when gpiod_get_index has failed for channel k, every call made on a
\* timer or a line while unwinding is on one of the channels 0 .. k-1, the
\* calls go from the channel acquired last to the one acquired first, and
\* when servo_probe returns every one of those channels has had its timer
\* cancelled and its line released.
C15_UnwindAcquiredOnly ==
    life.k \in Chan =>
        /\ \A n \in 1 .. Len(life.log) : life.log[n][2] < life.k
        /\ \A m, n \in 1 .. Len(life.log) : m < n => life.log[m][2] >= life.log[n][2]
        /\ life.pc = "failed" =>
              /\ life.held = {} /\ life.armed = {}
              /\ \A j \in 0 .. (life.k - 1) :
                    \E m, n \in 1 .. Len(life.log) :
                        life.log[m] = <<"cancel", j>> /\ life.log[n] = <<"put", j>>

\* the calls servo_remove has made on channel i, in their order
RemoveCalls(l, i) == SelectSeq(l.log, LAMBDA e : e[2] = i)

\* C16: while servo_remove runs and after it, the calls made on each channel
\* are its hrtimer_cancel, then its gpiod_set_value, then its gpiod_put; once
\* the timer of a channel is cancelled the callback of that channel does not
\* run and only the gpiod_set_value of servo_remove changes its line; and
\* the line of a released channel is at the level servo_remove forced, 0.
C16_RemoveOrder ==
    [][life'.pc \in {"remove", "removed"} =>
          \A i \in Chan :
              /\ \E n \in 0 .. 3 :
                    RemoveCalls(life', i) = SubSeq(<<<<"cancel", i>>, <<"set", i>>, <<"put", i>>>>, 1, n)
              /\ (life.pc = "remove" /\ i \notin life.armed) =>
                    /\ ~servo_cb(i)
                    /\ gpio'[i] # gpio[i] =>
                          /\ gpio'[i] = 0
                          /\ RemoveCalls(life', i) = <<<<"cancel", i>>, <<"set", i>>>>
              /\ i \notin life'.held => gpio'[i] = 0]_vars

\* servo_remove has returned, having stopped channel 0 in the middle of a
\* pulse and forced its line from 1 to 0
C16_Witness ==
    /\ life.pc = "removed" /\ life.held = {} /\ life.armed = {}
    /\ Enabled(0) /\ Active(0) /\ ~Inverted(0) /\ gpio[0] = 0

\* C17: a step that changes SERVO_ACTIVE of a channel is a firing of the
\* timer of that channel, and a firing leaves SERVO_ENABLED, SERVO_INVERTED,
\* SERVO_OPEN and the stored width of the channel as they were.
C17_PhaseOnlyByCallback ==
    [][\A i \in Chan :
          /\ test_bit(SERVO_ACTIVE, flags'[i]) # Active(i) => servo_cb(i)
          /\ servo_cb(i) =>
                /\ \A b \in {SERVO_ENABLED, SERVO_INVERTED, SERVO_OPEN} :
                      test_bit(b, flags'[i]) = test_bit(b, flags[i])
                /\ period_ns'[i] = period_ns[i]]_vars

\* C19: a firing that finds the channel disabled leaves the line, the whole
\* flags word (phase included), t_switch and t_next as they were and moves
\* the expiry of the timer to the previous expiry plus 20,000,000 ns,
\* whatever SERVO_ACTIVE and SERVO_INVERTED are and however late it runs.
C19_DisabledFiring ==
    [][\A i \in Chan :
          (servo_cb(i) /\ ~Enabled(i)) =>
              /\ gpio'[i] = gpio[i] /\ flags'[i] = flags[i]
              /\ t_switch'[i] = t_switch[i] /\ t_next'[i] = t_next[i]
              /\ expires'[i] = expires[i] + SERVO_PERIOD]_vars

\* a firing, delivered late, has skipped a frame of an inverted channel that
\* was disabled in the middle of its pulse (its line is 0, the level an
\* inverted pulse begins with)
C19_Witness ==
    \E i \in Chan :
        /\ obs[i].last = "skip" /\ ~Enabled(i) /\ Active(i) /\ Inverted(i) /\ gpio[i] = 0
        /\ obs[i].at = obs[i].start_at + obs[i].hi
        /\ now = obs[i].at + Latency

\* C18: every firing moves the expiry of the timer to the previous expiry
\* plus the duration of the phase that begins, whatever the time the callback
\* runs at; a pulse that follows another begins at the expiry 20,000,000 ns
\* after the one the other began at; and so, for a channel enabled before its
\* first firing and left alone, every pulse begins at the expiry of the first
\* one, MIN_PERIOD after the timer was started, plus a multiple of
\* 20,000,000 ns.
C18_RearmFromDeadline ==
    [][servo_cb(0) =>
          /\ expires'[0] - expires[0] =
                IF ~Enabled(0) THEN SERVO_PERIOD
                ELSE IF Active(0) THEN SERVO_PERIOD - obs[0].w_read
                ELSE period_ns[0]
          /\ (Enabled(0) /\ ~Active(0) /\ obs[0].last = "end") =>
                expires[0] = obs[0].start_at + SERVO_PERIOD
          /\ (Enabled(0) /\ ~Active(0)) =>
                \E k \in 0 .. (FreeTime \div SERVO_PERIOD) :
                    obs'[0].start_at = MIN_PERIOD + k * SERVO_PERIOD]_vars

\* the fourth pulse has begun, at the expiry 60,000,000 ns after that of the
\* first, in a firing delivered late
C18_Witness ==
    /\ obs[0].last = "start" /\ obs[0].start_at = MIN_PERIOD + 3 * SERVO_PERIOD
    /\ now = obs[0].start_at + Latency
    /\ period_ns[0] = 1500000

\* C20: in the busy-loop variant, once the deadlines of frame k (k = 1, 2,
\* ..) are computed, the deadline of the end of the frame is the time stamp
\* the loop started from plus k * 20,000,000 ns, the deadline of the end of
\* the pulse is the start of the frame plus the width read for it, and the
\* end of the pulse is not after the end of the frame.
C20_AbsoluteDeadlines ==
    thr.k >= 1 =>
        /\ TsNs(thr.t_next) = TsNs(thr.t0) + thr.k * FRAME_NS
        /\ TsNs(thr.t_switch) = TsNs(thr.t0) + (thr.k - 1) * FRAME_NS + thr.w
        /\ TsNs(thr.t_switch) <= TsNs(thr.t_next)

\* C21: every firing leaves the timer armed and moves its expiry forward, by
\* at least 1,000,000 ns and at most 20,000,000 ns; a firing that begins a
\* pulse sets t_next to 20,000,000 - t_switch without wrapping below zero;
\* and, the timers being delivered, a channel that is enabled from some time
\* on begins a pulse again and again.
C21_AlwaysRearmed ==
    /\ [][\A i \in Chan :
             servo_cb(i) =>
                 /\ i \in life'.armed
                 /\ expires'[i] > expires[i]
                 /\ expires'[i] - expires[i] \in MIN_PERIOD .. SERVO_PERIOD
                 /\ (Enabled(i) /\ ~Active(i)) =>
                        /\ ~U32Lt(SERVO_PERIOD, t_switch'[i])
                        /\ t_next'[i] = SERVO_PERIOD - t_switch'[i]
                        /\ t_next'[i] \in 0 .. SERVO_PERIOD]_vars
    /\ \A i \in Chan :
          <>[]Enabled(i) => []<><<servo_cb(i) /\ Enabled(i) /\ ~Active(i)>>_vars

\* the origin of time has moved at least once, and after that channel 0,
\* enabled and not inverted, has ended a pulse of 1,500,000 ns and begun the
\* next one a whole frame after it, in a firing delivered late
C21_Witness ==
    /\ obs[0].last = "start" /\ obs[0].prev < -1
    /\ obs[0].start_at = obs[0].prev + SERVO_PERIOD
    /\ obs[0].w_read = 1500000 /\ Enabled(0) /\ Active(0) /\ ~Inverted(0)
    /\ now = obs[0].start_at + Latency

====
